---- MODULE Spec2Model ----
(***************************************************************************)
(* A model of sqlite3perf (github.com/mwmahlberg/sqlite3perf): the         *)
(* 'generate' command (cmd/generate.go, here src/cmd/root.go lines 98-259) *)
(* and the 'bench' command (cmd/bench.go, here src/unnamed/part_000).      *)
(*                                                                         *)
(* One behaviour is a sequence of invocations of the binary against one    *)
(* database file.  An invocation has two goroutines: the one that runs the *)
(* cobra Run function (position pc) and the progress goroutine (position   *)
(* rpc).  log.Fatal*/os.Exit end the process with status 1 without running *)
(* deferred calls; a runtime panic ends it with status 2.                  *)
(***************************************************************************)
EXTENDS Integers, Sequences, FiniteSets, TLC

\* ---------------------------------------------------------------- bounds
\* largest value of the --records flag tried, and most rows of a database
\* file that exists before the first invocation
MaxRecs == 2
\* most timer ticks delivered to the progress goroutine in one invocation
MaxTicks == 2

\* ------------------------------------------------------- program constants
\* b := make([]byte, 8)
ValLen == 8
\* sha256.Size: the length of h.Sum(nil)
DigestLen == 32
\* time.NewTicker(time.Second * 2): the ticker's period in seconds
TickSeconds == 2
\* values of the --interval flag tried; 2 is its default
Intervals == {1, 2}

\* ------------------------------------------------------------ encoding/hex
\* hex.EncodeToString uses the table "0123456789abcdef"
hextable ==
  <<"0", "1", "2", "3", "4", "5", "6", "7", "8", "9", "a", "b", "c", "d", "e", "f">>

upperhex == <<"A", "B", "C", "D", "E", "F">>

Pos(seq, c) ==
  IF \E k \in 1..Len(seq) : seq[k] = c
    THEN CHOOSE k \in 1..Len(seq) : seq[k] = c
    ELSE 0

\* fromHexChar: '0'..'9', 'a'..'f' and 'A'..'F' are digits; -1 stands for
\* the (0, false) result
fromHexChar(c) ==
  LET lo == Pos(hextable, c)
      up == Pos(upperhex, c)
  IN IF lo > 0 THEN lo - 1
     ELSE IF up > 0 THEN up + 9
     ELSE -1

\* hex.EncodeToString(src): two lower-case digits per byte, high nibble first
EncodeToString(src) ==
  [k \in 1..(2 * Len(src)) |->
     IF k % 2 = 1 THEN hextable[(src[(k + 1) \div 2] \div 16) + 1]
                  ELSE hextable[(src[k \div 2] % 16) + 1]]

\* hex.DecodeString(s): the bytes decoded before the first bad pair, and the
\* error: "nil", "InvalidByteError" or "ErrLength"
DecodeString(s) ==
  LET np == Len(s) \div 2
      badPair(j) == fromHexChar(s[2 * j - 1]) < 0 \/ fromHexChar(s[2 * j]) < 0
      bad == {j \in 1..np : badPair(j)}
      n == IF bad = {} THEN np ELSE (CHOOSE j \in bad : \A q \in bad : j <= q) - 1
      err == IF bad # {} THEN "InvalidByteError"
             ELSE IF Len(s) % 2 = 1
               THEN (IF fromHexChar(s[Len(s)]) < 0 THEN "InvalidByteError"
                                                    ELSE "ErrLength")
             ELSE "nil"
  IN [bytes |-> [k \in 1..n |-> 16 * fromHexChar(s[2 * k - 1]) + fromHexChar(s[2 * k])],
      err |-> err]

\* ----------------------------------------------------------- crypto/sha256
RECURSIVE WeightedSum(_, _)
WeightedSum(data, k) ==
  IF k = 0 THEN 0 ELSE (k * data[k]) + WeightedSum(data, k - 1)

RECURSIVE PlainSum(_, _)
PlainSum(data, k) ==
  IF k = 0 THEN 0 ELSE data[k] + PlainSum(data, k - 1)

\* h.Sum(nil) of a hasher that was fed `data` since its last Reset.  SHA-256
\* itself is library code; it is represented by a fixed function from byte
\* strings to DigestLen bytes that depends on every byte and on its position.
Sum256(data) ==
  LET s1 == PlainSum(data, Len(data))
      s2 == WeightedSum(data, Len(data))
  IN [k \in 1..DigestLen |-> (31 * k + s2 + k * s1 + Len(data)) % 256]

\* ------------------------------------------------------------- input values
\* what rand.Read may put into b: two 8 byte values
RandVals ==
  { <<0, 1, 35, 69, 103, 137, 171, 205>>,
    <<255, 16, 50, 84, 118, 152, 186, 220>> }

\* a rand column that hex.DecodeString rejects
NonHex ==
  <<"n", "o", "t", "-", "h", "e", "x", "-", "t", "e", "x", "t", "0", "1", "2", "3">>

\* rand and hash columns of the rows a database file may hold before the first
\* invocation
RandTexts == {EncodeToString(v) : v \in RandVals} \cup {NonHex}
HashTexts == {EncodeToString(Sum256(v)) : v \in RandVals}

RECURSIVE TablesOfLen(_)
TablesOfLen(n) ==
  IF n = 0 THEN {<< >>}
  ELSE {Append(t, [ID |-> n - 1, rand |-> r, hash |-> x]) :
          t \in TablesOfLen(n - 1), r \in RandTexts, x \in HashTexts}

\* contents of the database file: the table 'bench' is absent, or holds rows
NoTable == [exists |-> FALSE, rows |-> << >>]
ExistingDBs ==
  {NoTable} \cup
  UNION {{[exists |-> TRUE, rows |-> t] : t \in TablesOfLen(n)} : n \in 0..MaxRecs}

\* -------------------------------------------------------------------- state
VARIABLES
  db,        \* the database file: is there a table 'bench', and its rows in rowid order
  origin,    \* how the present contents of db came about
  prior,     \* origin as it was when the running invocation started
  cmd,       \* the command of the invocation: "none", "generate" or "bench"
  numRecs,   \* --records
  vacuum,    \* --vacuum
  logSeconds, \* --interval
  pc,        \* position of the goroutine that runs the command
  rpc,       \* position of the progress goroutine
  exit,      \* exit status of the process, meaningful when pc = "exited"
  i,         \* the counter shared by the loop and the progress goroutine
  st,        \* generate: is the prepared statement non-nil
  b,         \* generate: the buffer rand.Read fills
  h,         \* the bytes written to the hasher since its last Reset
  cur,       \* bench: number of rows rows.Next() has fetched
  lasterr,   \* bench: rows.Err() is non-nil
  once,      \* bench: the first-row line has been logged
  sent,      \* number of completed sends on the channel done
  ended,     \* the driving loop of this invocation has made its last iteration
  nprog,     \* progress lines the progress goroutine has logged
  period,    \* seconds between two ticks of the progress goroutine's ticker, 0: no ticker
  lateProg,  \* progress lines logged after the driving loop had ended
  skipped,   \* bench: "Could not decode hex string" lines logged
  reported,  \* the count in the final "written in" / "rows processed" line, -1: not logged
  fatalMsg,  \* the operation whose fatal message was logged, or "none"
  vacLogged, \* generate: the "Vacuumating database caused an error" line was logged
  faults     \* the operations of the store or the random source that returned an error

vars ==
  <<db, origin, prior, cmd, numRecs, vacuum, pc, rpc, exit, i, st, b, h, cur,
    lasterr, once, sent, nprog, skipped, reported, fatalMsg, vacLogged, faults,
    logSeconds, period, lateProg, ended>>

dbVars == <<db, origin>>
flagVars == <<prior, cmd, numRecs, vacuum, logSeconds>>
genVars == <<st, b>>
benchVars == <<cur, lasterr, once, skipped>>
logVars == <<nprog, reported, vacLogged, period, lateProg, ended>>

Origin(kind, n) == [kind |-> kind, n |-> n]

Running == pc \notin {"idle", "exited"}

\* the driving loop has made its last iteration and the process is alive
LoopEnded == pc \in {"send", "stats", "vacuum", "err", "avg"}

\* log.Fatal, log.Fatalf and os.Exit(1): the message is printed and the process
\* ends with status 1; deferred calls do not run
Fatal(op) ==
  /\ pc' = "exited"
  /\ exit' = 1
  /\ fatalMsg' = op

\* a runtime panic (integer division by zero, nil pointer dereference) in
\* either goroutine ends the process with status 2
Panic ==
  /\ pc' = "exited"
  /\ exit' = 2
  /\ fatalMsg' = fatalMsg

\* the Run function returns: the process ends with status 0
Return ==
  /\ pc' = "exited"
  /\ exit' = 0
  /\ fatalMsg' = fatalMsg

Goto(l) ==
  /\ pc' = l
  /\ exit' = exit
  /\ fatalMsg' = fatalMsg

Init ==
  /\ db \in ExistingDBs
  /\ origin = Origin(IF db.exists THEN "external" ELSE "absent", 0)
  /\ prior = origin
  /\ cmd = "none"
  /\ numRecs = 0
  /\ vacuum = FALSE
  /\ logSeconds = TickSeconds
  /\ period = 0
  /\ lateProg = 0
  /\ ended = FALSE
  /\ pc = "idle"
  /\ rpc = "none"
  /\ exit = 0
  /\ i = 0
  /\ st = FALSE
  /\ b = [k \in 1..ValLen |-> 0]
  /\ h = << >>
  /\ cur = 0
  /\ lasterr = FALSE
  /\ once = FALSE
  /\ sent = 0
  /\ nprog = 0
  /\ skipped = 0
  /\ reported = -1
  /\ fatalMsg = "none"
  /\ vacLogged = FALSE
  /\ faults = {}

\* A new process is started on the same database file: every variable of the
\* program starts from its zero value, the flags are parsed.
Start(c, n, v, s) ==
  /\ pc \in {"idle", "exited"}
  /\ cmd' = c
  /\ logSeconds' = IF c = "generate" THEN s ELSE TickSeconds
  /\ period' = 0
  /\ lateProg' = 0
  /\ ended' = FALSE
  /\ numRecs' = IF c = "generate" THEN n ELSE 0
  /\ vacuum' = IF c = "generate" THEN v ELSE FALSE
  /\ prior' = origin
  /\ pc' = "open"
  /\ rpc' = "none"
  /\ exit' = 0
  /\ i' = 0
  /\ st' = FALSE
  /\ b' = [k \in 1..ValLen |-> 0]
  /\ h' = << >>
  /\ cur' = 0
  /\ lasterr' = FALSE
  /\ once' = FALSE
  /\ sent' = 0
  /\ nprog' = 0
  /\ skipped' = 0
  /\ reported' = -1
  /\ fatalMsg' = "none"
  /\ vacLogged' = FALSE
  /\ faults' = {}
  /\ UNCHANGED dbVars

\* ----------------------------------------------------------------- generate
\* sql.Open
GenOpen(ok) ==
  /\ cmd = "generate" /\ pc = "open"
  /\ IF ok THEN Goto("drop") /\ faults' = faults
           ELSE Fatal("open") /\ faults' = faults \cup {"open"}
  /\ UNCHANGED <<dbVars, flagVars, rpc, i, genVars, h, benchVars, sent, logVars>>

\* GenDrop as it would be if the table were left in place
GenDropSkipped(ok) ==
  /\ cmd = "generate" /\ pc = "drop"
  /\ IF ok
       THEN /\ UNCHANGED dbVars
            /\ Goto("create")
            /\ faults' = faults
       ELSE /\ UNCHANGED dbVars
            /\ Fatal("drop")
            /\ faults' = faults \cup {"drop"}
  /\ UNCHANGED <<flagVars, rpc, i, genVars, h, benchVars, sent, logVars>>

\* DROP TABLE IF EXISTS bench
GenDrop(ok) ==
  /\ cmd = "generate" /\ pc = "drop"
  /\ IF ok
       THEN /\ db' = NoTable
            /\ origin' = Origin("absent", 0)
            /\ Goto("create")
            /\ faults' = faults
       ELSE /\ UNCHANGED dbVars
            /\ Fatal("drop")
            /\ faults' = faults \cup {"drop"}
  /\ UNCHANGED <<flagVars, rpc, i, genVars, h, benchVars, sent, logVars>>

\* CREATE TABLE bench (ID int PRIMARY KEY ASC, rand TEXT, hash TEXT)
GenCreate(ok) ==
  /\ cmd = "generate" /\ pc = "create"
  /\ IF ok /\ ~db.exists
       THEN /\ db' = [exists |-> TRUE, rows |-> << >>]
            /\ origin' = Origin("partial", numRecs)
            /\ Goto("prepare")
            /\ faults' = faults
       ELSE /\ UNCHANGED dbVars
            /\ Fatal("create")
            /\ faults' = faults \cup {"create"}
  /\ UNCHANGED <<flagVars, rpc, i, genVars, h, benchVars, sent, logVars>>

\* st, _ := db.Prepare(...): the error is discarded, st is nil when it fails
GenPrepare(ok) ==
  /\ cmd = "generate" /\ pc = "prepare"
  /\ st' = ok
  /\ faults' = IF ok THEN faults ELSE faults \cup {"prepare"}
  /\ Goto("go")
  /\ UNCHANGED <<dbVars, flagVars, rpc, i, b, h, benchVars, sent, logVars>>

\* go func() {...}(): the progress goroutine is created
GenGo ==
  /\ cmd = "generate" /\ pc = "go"
  /\ rpc' = "spawned"
  /\ Goto("loop")
  /\ UNCHANGED <<dbVars, flagVars, i, genVars, h, benchVars, sent, logVars, faults>>

\* GenLoop as it would be with the condition i <= numRecs
GenLoopOffByOne ==
  /\ cmd = "generate" /\ pc = "loop"
  /\ IF i <= numRecs
       THEN Goto("read") /\ origin' = origin /\ ended' = ended
       ELSE Goto("send") /\ origin' = Origin("generate", numRecs) /\ ended' = TRUE
  /\ UNCHANGED <<db, flagVars, rpc, i, genVars, h, benchVars, sent, nprog, reported,
                 vacLogged, period, lateProg, faults>>

\* for i = 0; i < numRecs; i++: the test of the condition
GenLoop ==
  /\ cmd = "generate" /\ pc = "loop"
  /\ IF i < numRecs
       THEN Goto("read") /\ origin' = origin /\ ended' = ended
       ELSE Goto("send") /\ origin' = Origin("generate", numRecs) /\ ended' = TRUE
  /\ UNCHANGED <<db, flagVars, rpc, i, genVars, h, benchVars, sent, nprog, reported,
                 vacLogged, period, lateProg, faults>>

\* rand.Read(b), then h.Write(b)
GenRead(ok, val) ==
  /\ cmd = "generate" /\ pc = "read"
  /\ IF ok
       THEN /\ b' = val
            /\ h' = h \o val
            /\ Goto("exec")
            /\ faults' = faults
       ELSE /\ UNCHANGED <<b, h>>
            /\ Fatal("rand")
            /\ faults' = faults \cup {"rand"}
  /\ UNCHANGED <<dbVars, flagVars, rpc, i, st, benchVars, sent, logVars>>

\* the row that st.Exec(i, hex.EncodeToString(b), hex.EncodeToString(h.Sum(nil)))
\* inserts
GenRow == [ID |-> i, rand |-> EncodeToString(b), hash |-> EncodeToString(Sum256(h))]

\* GenExec as it would be without the h.Reset() after the insert
GenExecNoReset(ok) ==
  /\ cmd = "generate" /\ pc = "exec"
  /\ IF ~st
       THEN /\ ok
            /\ Panic
            /\ UNCHANGED <<db, i, h, faults>>
       ELSE IF ok
         THEN /\ db' = [db EXCEPT !.rows = Append(@, GenRow)]
              /\ h' = h
              /\ i' = i + 1
              /\ Goto("loop")
              /\ faults' = faults
         ELSE /\ UNCHANGED <<db, i, h>>
              /\ Fatal("exec")
              /\ faults' = faults \cup {"exec"}
  /\ UNCHANGED <<origin, flagVars, rpc, genVars, benchVars, sent, logVars>>

\* st.Exec(...), h.Reset() and the loop's i++.  Exec on a nil statement
\* dereferences a nil pointer.
GenExec(ok) ==
  /\ cmd = "generate" /\ pc = "exec"
  /\ IF ~st
       THEN /\ ok
            /\ Panic
            /\ UNCHANGED <<db, i, h, faults>>
       ELSE IF ok
         THEN /\ db' = [db EXCEPT !.rows = Append(@, GenRow)]
              /\ h' = << >>
              /\ i' = i + 1
              /\ Goto("loop")
              /\ faults' = faults
         ELSE /\ UNCHANGED <<db, i, h>>
              /\ Fatal("exec")
              /\ faults' = faults \cup {"exec"}
  /\ UNCHANGED <<origin, flagVars, rpc, genVars, benchVars, sent, logVars>>

\* GenDone as it would be with done := make(chan bool, 1): the send does not
\* wait for the receive
GenDoneBuffered ==
  /\ cmd = "generate" /\ pc = "send"
  /\ sent' = sent + 1
  /\ rpc' = rpc
  /\ Goto("stats")
  /\ UNCHANGED <<dbVars, flagVars, i, genVars, h, benchVars, logVars, faults>>

\* GenDone as it would be if case <-done left the select but not the for loop
GenDoneNoReturn ==
  /\ cmd = "generate" /\ pc = "send" /\ rpc = "select"
  /\ sent' = sent + 1
  /\ rpc' = "select"
  /\ Goto("stats")
  /\ UNCHANGED <<dbVars, flagVars, i, genVars, h, benchVars, logVars, faults>>

\* done <- true meets <-done: the channel is unbuffered, the send completes
\* when the progress goroutine receives, and that goroutine returns
GenDone ==
  /\ cmd = "generate" /\ pc = "send" /\ rpc = "select"
  /\ sent' = sent + 1
  /\ rpc' = "returned"
  /\ Goto("stats")
  /\ UNCHANGED <<dbVars, flagVars, i, genVars, h, benchVars, logVars, faults>>

\* the "written in" line, then the "Average time per Record" line, whose
\* dur.Nanoseconds()/int64(numRecs) is an integer division
GenStats ==
  /\ cmd = "generate" /\ pc = "stats"
  /\ reported' = i
  /\ IF numRecs = 0 THEN Panic
     ELSE IF vacuum THEN Goto("vacuum")
     ELSE Return
  /\ UNCHANGED <<dbVars, flagVars, rpc, i, genVars, h, benchVars, sent, nprog,
                 vacLogged, faults, period, lateProg, ended>>

\* GenVacuum as it would be if the error were passed to log.Fatalf
GenVacuumFatal(ok) ==
  /\ cmd = "generate" /\ pc = "vacuum"
  /\ vacLogged' = ~ok
  /\ faults' = IF ok THEN faults ELSE faults \cup {"vacuum"}
  /\ IF ok THEN Return ELSE Fatal("vacuum")
  /\ UNCHANGED <<dbVars, flagVars, rpc, i, genVars, h, benchVars, sent, nprog, reported,
                 period, lateProg, ended>>

\* if vacuum { db.Exec("VACUUM;") }: an error is logged, then Run returns
GenVacuum(ok) ==
  /\ cmd = "generate" /\ pc = "vacuum"
  /\ vacLogged' = ~ok
  /\ faults' = IF ok THEN faults ELSE faults \cup {"vacuum"}
  /\ Return
  /\ UNCHANGED <<dbVars, flagVars, rpc, i, genVars, h, benchVars, sent, nprog, reported,
                 period, lateProg, ended>>

\* the progress goroutine of generate starts: "Starting progress logging",
\* time.NewTicker, and it reaches the select
GenReporterStart ==
  /\ cmd = "generate" /\ Running /\ rpc = "spawned"
  /\ rpc' = "select"
  /\ period' = TickSeconds
  /\ UNCHANGED <<dbVars, flagVars, pc, exit, fatalMsg, i, genVars, h, benchVars, sent,
                 nprog, reported, vacLogged, lateProg, faults, ended>>

\* the select takes case <-ticker
GenTickRecv ==
  /\ cmd = "generate" /\ Running /\ rpc = "select"
  /\ nprog < MaxTicks
  /\ rpc' = "tick"
  /\ UNCHANGED <<dbVars, flagVars, pc, exit, fatalMsg, i, genVars, h, benchVars, sent,
                 logVars, faults>>

\* the body of case <-ticker: one progress line.  i is read without
\* synchronisation, so the value seen is any value the loop has written; the
\* line computes time.Since(start).Nanoseconds()/int64(i), an integer division.
GenTick(seen) ==
  /\ cmd = "generate" /\ Running /\ rpc = "tick"
  /\ IF seen = 0
       THEN Panic /\ UNCHANGED <<rpc, nprog, lateProg>>
       ELSE /\ Goto(pc)
            /\ rpc' = "select"
            /\ nprog' = nprog + 1
            /\ lateProg' = IF LoopEnded THEN lateProg + 1 ELSE lateProg
  /\ UNCHANGED <<dbVars, flagVars, i, genVars, h, benchVars, sent, reported,
                 vacLogged, period, faults, ended>>

Generate ==
  \/ \E ok \in BOOLEAN : GenOpen(ok)
  \/ \E ok \in BOOLEAN : GenDrop(ok)
  \/ \E ok \in BOOLEAN : GenCreate(ok)
  \/ \E ok \in BOOLEAN : GenPrepare(ok)
  \/ GenGo
  \/ GenLoop
  \/ \E ok \in BOOLEAN, val \in RandVals : GenRead(ok, val)
  \/ \E ok \in BOOLEAN : GenExec(ok)
  \/ GenDone
  \/ GenStats
  \/ \E ok \in BOOLEAN : GenVacuum(ok)
  \/ GenReporterStart
  \/ GenTickRecv
  \/ \E seen \in 0..i : GenTick(seen)

\* -------------------------------------------------------------------- bench
\* sql.Open; on an error the message is printed and os.Exit(1) is called
BenchOpen(ok) ==
  /\ cmd = "bench" /\ pc = "open"
  /\ IF ok THEN Goto("query") /\ faults' = faults
           ELSE Fatal("open") /\ faults' = faults \cup {"open"}
  /\ UNCHANGED <<dbVars, flagVars, rpc, i, genVars, h, benchVars, sent, logVars>>

\* rows, err := db.Query("select * from bench"); it fails when the store
\* fails and when there is no table 'bench'
BenchQuery(ok) ==
  /\ cmd = "bench" /\ pc = "query"
  /\ IF ok /\ db.exists
       THEN Goto("go") /\ faults' = faults
       ELSE Fatal("query") /\ faults' = faults \cup {"query"}
  /\ UNCHANGED <<dbVars, flagVars, rpc, i, genVars, h, benchVars, sent, logVars>>

\* go func(c *int64) {...}(&i)
BenchGo ==
  /\ cmd = "bench" /\ pc = "go"
  /\ rpc' = "spawned"
  /\ Goto("next")
  /\ UNCHANGED <<dbVars, flagVars, i, genVars, h, benchVars, sent, logVars, faults>>

\* for rows.Next(): it fetches the next row, or ends the loop at the end of
\* the result set or on an error, which rows.Err() then reports
BenchNext(ok) ==
  /\ cmd = "bench" /\ pc = "next"
  /\ IF ~ok
       THEN /\ lasterr' = TRUE
            /\ faults' = faults \cup {"next"}
            /\ cur' = cur
            /\ ended' = TRUE
            /\ Goto("send")
       ELSE /\ lasterr' = lasterr
            /\ faults' = faults
            /\ IF cur < Len(db.rows)
                 THEN cur' = cur + 1 /\ ended' = ended /\ Goto("scan")
                 ELSE cur' = cur /\ ended' = TRUE /\ Goto("send")
  /\ UNCHANGED <<dbVars, flagVars, rpc, i, genVars, h, once, skipped, sent, nprog,
                 reported, vacLogged, period, lateProg>>

\* rows.Scan(&ID, &rand, &hash), the once.Do that logs the first row, h.Reset()
BenchScan(ok) ==
  /\ cmd = "bench" /\ pc = "scan"
  /\ IF ok
       THEN /\ once' = TRUE
            /\ h' = << >>
            /\ Goto("verify")
            /\ faults' = faults
       ELSE /\ UNCHANGED <<once, h>>
            /\ Fatal("scan")
            /\ faults' = faults \cup {"scan"}
  /\ UNCHANGED <<dbVars, flagVars, rpc, i, genVars, cur, lasterr, skipped, sent, logVars>>

\* the row Scan copied into ID, rand and hash
Scanned == db.rows[cur]

\* BenchVerify as it would be if a mismatch were logged with log.Println
BenchVerifyLogOnly ==
  /\ cmd = "bench" /\ pc = "verify"
  /\ LET d == DecodeString(Scanned.rand)
     IN IF d.err # "nil"
          THEN /\ skipped' = skipped + 1
               /\ Goto("next")
               /\ UNCHANGED <<i, h>>
          ELSE /\ i' = i + 1
               /\ h' = << >>
               /\ Goto("next")
               /\ skipped' = skipped
  /\ UNCHANGED <<dbVars, flagVars, rpc, genVars, cur, lasterr, once, sent, logVars, faults>>

\* BenchVerify as it would be if the decode error did not continue the loop
\* before i++
BenchVerifyCountsSkipped ==
  /\ cmd = "bench" /\ pc = "verify"
  /\ LET d == DecodeString(Scanned.rand)
     IN IF d.err # "nil"
          THEN /\ skipped' = skipped + 1
               /\ i' = i + 1
               /\ h' = h
               /\ Goto("next")
          ELSE IF EncodeToString(Sum256(h \o d.bytes)) # Scanned.hash
            THEN /\ h' = h \o d.bytes
                 /\ Fatal("mismatch")
                 /\ UNCHANGED <<i, skipped>>
            ELSE /\ i' = i + 1
                 /\ h' = << >>
                 /\ Goto("next")
                 /\ skipped' = skipped
  /\ UNCHANGED <<dbVars, flagVars, rpc, genVars, cur, lasterr, once, sent, logVars, faults>>

\* hex.DecodeString(rand); on an error log and continue.  Otherwise
\* h.Write(v), compare hex.EncodeToString(h.Sum(nil)) with hash: log.Fatal on
\* a difference, else i++ and h.Reset()
BenchVerify ==
  /\ cmd = "bench" /\ pc = "verify"
  /\ LET d == DecodeString(Scanned.rand)
     IN IF d.err # "nil"
          THEN /\ skipped' = skipped + 1
               /\ Goto("next")
               /\ UNCHANGED <<i, h>>
          ELSE IF EncodeToString(Sum256(h \o d.bytes)) # Scanned.hash
            THEN /\ h' = h \o d.bytes
                 /\ Fatal("mismatch")
                 /\ UNCHANGED <<i, skipped>>
            ELSE /\ i' = i + 1
                 /\ h' = << >>
                 /\ Goto("next")
                 /\ skipped' = skipped
  /\ UNCHANGED <<dbVars, flagVars, rpc, genVars, cur, lasterr, once, sent, logVars, faults>>

\* BenchDone as it would be with done := make(chan bool, 1): the send does
\* not wait for the receive
BenchDoneBuffered ==
  /\ cmd = "bench" /\ pc = "send"
  /\ sent' = sent + 1
  /\ rpc' = rpc
  /\ Goto("stats")
  /\ UNCHANGED <<dbVars, flagVars, i, genVars, h, benchVars, logVars, faults>>

\* BenchDone as it would be if case <-done left the select but not the for loop
BenchDoneNoReturn ==
  /\ cmd = "bench" /\ pc = "send" /\ rpc = "select"
  /\ sent' = sent + 1
  /\ rpc' = "select"
  /\ Goto("stats")
  /\ UNCHANGED <<dbVars, flagVars, i, genVars, h, benchVars, logVars, faults>>

\* done <- true meets <-done
BenchDone ==
  /\ cmd = "bench" /\ pc = "send" /\ rpc = "select"
  /\ sent' = sent + 1
  /\ rpc' = "returned"
  /\ Goto("stats")
  /\ UNCHANGED <<dbVars, flagVars, i, genVars, h, benchVars, logVars, faults>>

\* the final "%d rows processed" and "Finished loop after" lines
BenchReport ==
  /\ cmd = "bench" /\ pc = "stats"
  /\ reported' = i
  /\ Goto("err")
  /\ UNCHANGED <<dbVars, flagVars, rpc, i, genVars, h, benchVars, sent, nprog,
                 vacLogged, faults, period, lateProg, ended>>

\* BenchErr as it would be without the check of rows.Err()
BenchErrIgnored ==
  /\ cmd = "bench" /\ pc = "err"
  /\ Goto("avg")
  /\ UNCHANGED <<dbVars, flagVars, rpc, i, genVars, h, benchVars, sent, logVars, faults>>

\* err = rows.Err(); if err != nil { log.Fatal(err) }
BenchErr ==
  /\ cmd = "bench" /\ pc = "err"
  /\ IF lasterr THEN Fatal("rows.Err") ELSE Goto("avg")
  /\ UNCHANGED <<dbVars, flagVars, rpc, i, genVars, h, benchVars, sent, logVars, faults>>

\* the "Average %s per record" line, whose e.Nanoseconds()/i is an integer
\* division; then Run returns and the deferred rows.Close() and db.Close()
\* run, their errors discarded
BenchAverage(closeOk) ==
  /\ cmd = "bench" /\ pc = "avg"
  /\ IF i = 0
       THEN closeOk /\ Panic /\ faults' = faults
       ELSE Return /\ faults' = IF closeOk THEN faults ELSE faults \cup {"close"}
  /\ UNCHANGED <<dbVars, flagVars, rpc, i, genVars, h, benchVars, sent, logVars>>

\* the progress goroutine of bench starts: time.NewTicker, and it reaches the
\* select
BenchReporterStart ==
  /\ cmd = "bench" /\ Running /\ rpc = "spawned"
  /\ rpc' = "select"
  /\ period' = TickSeconds
  /\ UNCHANGED <<dbVars, flagVars, pc, exit, fatalMsg, i, genVars, h, benchVars, sent,
                 nprog, reported, vacLogged, lateProg, faults, ended>>

\* the select takes case <-t
BenchTickRecv ==
  /\ cmd = "bench" /\ Running /\ rpc = "select"
  /\ nprog < MaxTicks
  /\ rpc' = "tick"
  /\ UNCHANGED <<dbVars, flagVars, pc, exit, fatalMsg, i, genVars, h, benchVars, sent,
                 logVars, faults>>

\* the body of case <-t: log "%d rows processed" with *c, read without
\* synchronisation
BenchTick(seen) ==
  /\ cmd = "bench" /\ Running /\ rpc = "tick"
  /\ rpc' = "select"
  /\ nprog' = nprog + 1
  /\ lateProg' = IF LoopEnded THEN lateProg + 1 ELSE lateProg
  /\ UNCHANGED <<dbVars, flagVars, pc, exit, fatalMsg, i, genVars, h, benchVars,
                 sent, reported, vacLogged, period, faults, ended>>

Bench ==
  \/ \E ok \in BOOLEAN : BenchOpen(ok)
  \/ \E ok \in BOOLEAN : BenchQuery(ok)
  \/ BenchGo
  \/ \E ok \in BOOLEAN : BenchNext(ok)
  \/ \E ok \in BOOLEAN : BenchScan(ok)
  \/ BenchVerify
  \/ BenchDone
  \/ BenchReport
  \/ BenchErr
  \/ \E closeOk \in BOOLEAN : BenchAverage(closeOk)
  \/ BenchReporterStart
  \/ BenchTickRecv
  \/ \E seen \in 0..i : BenchTick(seen)

\* --------------------------------------------------------------------- runs
Invoke ==
  \E c \in {"generate", "bench"}, n \in 0..MaxRecs, v \in BOOLEAN, s \in Intervals :
    Start(c, n, v, s)

Next == Invoke \/ Generate \/ Bench

Spec == Init /\ [][Next]_vars

TypeOK ==
  /\ db.exists \in BOOLEAN
  /\ Len(db.rows) <= MaxRecs
  /\ cmd \in {"none", "generate", "bench"}
  /\ numRecs \in 0..MaxRecs
  /\ exit \in 0..2
  /\ i \in 0..MaxRecs
  /\ nprog \in 0..MaxTicks
  /\ sent \in 0..1
  /\ rpc \in {"none", "spawned", "select", "tick", "returned"}
  /\ logSeconds \in Intervals
  /\ period \in {0, TickSeconds}
  /\ lateProg \in 0..nprog
  /\ ended \in BOOLEAN

\* ------------------------------------------------------------ vocabulary
\* the row's value decodes from hex
Decodable(r) == DecodeString(r.rand).err = "nil"

\* a row whose stored hash is the digest of its stored value
ValidRow(r) ==
  LET d == DecodeString(r.rand)
  IN d.err = "nil" /\ EncodeToString(Sum256(d.bytes)) = r.hash

\* a row with a decodable value whose recomputed digest differs from its hash
MismatchRow(r) ==
  LET d == DecodeString(r.rand)
  IN d.err = "nil" /\ EncodeToString(Sum256(d.bytes)) # r.hash

\* rows with the ids 0..n-1 in ascending order, each with the hash of its value
GeneratedRows(rows, n) ==
  /\ Len(rows) = n
  /\ \A k \in 1..n : rows[k].ID = k - 1 /\ ValidRow(rows[k])

\* the insert loop of the running generate has ended
GenLoopEnded ==
  /\ cmd = "generate"
  /\ \/ pc \in {"send", "stats", "vacuum"}
     \/ pc = "exited" /\ sent = 1

\* the running or finished command exited
Exited(c) == cmd = c /\ pc = "exited"

\* bench has compared (or tried to decode) the k-th row it fetched
Processed(k) ==
  \/ k < cur
  \/ k = cur /\ pc \notin {"scan", "verify"} /\ ~(pc = "exited" /\ fatalMsg = "scan")

\* ------------------------------------------------------------------ claims
\* C1: while generate inserts, the table holds exactly the rows 0..i-1 in
\* ascending id order (one row is added per iteration), and once its loop has
\* ended the table holds exactly numRecs rows with the ids 0..numRecs-1, every
\* stored hash being the digest of the stored value.
C1_GenerateTable ==
  /\ (cmd = "generate" /\ pc \in {"loop", "read", "exec"})
       => db.exists /\ GeneratedRows(db.rows, i) /\ i <= numRecs
  /\ GenLoopEnded
       => db.exists /\ GeneratedRows(db.rows, numRecs) /\ i = numRecs

C1_Witness ==
  /\ Exited("generate") /\ exit = 0 /\ faults = {}
  /\ numRecs = 2 /\ Len(db.rows) = 2
  /\ db.rows[1].rand # db.rows[2].rand

\* C2: once bench has compared a row whose value decodes and whose recomputed
\* digest differs from the stored hash, the process has exited with status 1
\* on the mismatch message, the final statistics were never logged, no later
\* row was fetched and the counter holds the number of valid rows before it.
C2_MismatchIsFatal ==
  cmd = "bench" =>
    \A k \in 1..cur :
      (Processed(k) /\ MismatchRow(db.rows[k])) =>
        /\ k = cur
        /\ pc = "exited" /\ exit = 1 /\ fatalMsg = "mismatch"
        /\ reported = -1
        /\ i = Cardinality({j \in 1..(k - 1) : ValidRow(db.rows[j])})

C2_Witness ==
  /\ Exited("bench") /\ fatalMsg = "mismatch" /\ exit = 1
  /\ Len(db.rows) = 2 /\ cur = 1 /\ i = 0
  /\ MismatchRow(db.rows[1])

\* C3 (as claimed): on a table of one or more rows in which exactly one row has
\* a non-hex value and every other row is valid, a bench run without store
\* errors exits 0 with the final statistics printed, one row skipped and a
\* processed count of the row count minus one.
C3_SkipThenSuccess ==
  ( /\ Exited("bench") /\ faults = {} /\ db.exists
    /\ Len(db.rows) >= 1
    /\ Cardinality({k \in 1..Len(db.rows) : ~Decodable(db.rows[k])}) = 1
    /\ \A k \in 1..Len(db.rows) : Decodable(db.rows[k]) => ValidRow(db.rows[k]) )
  => /\ exit = 0
     /\ skipped = 1
     /\ i = Len(db.rows) - 1
     /\ reported = Len(db.rows) - 1

\* C4 (as claimed): a bench run without store errors on a dataset that a
\* generate run with --records N left completes (exit status 0) with no
\* mismatch, no skipped row and a final processed count of N.
C4_BenchAfterGenerate ==
  (Exited("bench") /\ faults = {} /\ prior.kind = "generate")
  => /\ exit = 0
     /\ fatalMsg = "none"
     /\ skipped = 0
     /\ i = prior.n /\ reported = prior.n

\* C5 (as claimed): generate with --records 0 and bench on an empty table,
\* with no store error, exit 0 and report zero processed records.
C5_ZeroRecords ==
  ( /\ pc = "exited" /\ faults = {}
    /\ \/ cmd = "generate" /\ numRecs = 0
       \/ cmd = "bench" /\ db.exists /\ Len(db.rows) = 0 )
  => exit = 0 /\ reported = 0

\* C6: in generate and in bench, no step taken after the completion signal
\* was delivered adds a progress line.
C6_NoProgressAfterDone ==
  [][(sent >= 1 /\ sent' >= 1) => nprog' = nprog]_vars

C6_Witness ==
  /\ cmd = "generate" /\ numRecs = 1
  /\ sent = 1 /\ rpc = "returned" /\ nprog >= 1
  /\ pc = "exited" /\ exit = 0

\* C7: a generate run with --records N that starts on the table a completed
\* generate run with the same N left has dropped every row before it inserts,
\* and when its loop has ended the table again holds N rows with ids 0..N-1.
C7_GenerateTwice ==
  (cmd = "generate" /\ prior = Origin("generate", numRecs)) =>
    /\ pc = "create" => db = NoTable
    /\ pc \in {"prepare", "go", "loop", "read", "exec"} => Len(db.rows) = i
    /\ GenLoopEnded =>
         /\ Len(db.rows) = numRecs
         /\ \A k \in 1..numRecs : db.rows[k].ID = k - 1

C7_Witness ==
  /\ Exited("generate") /\ exit = 0
  /\ prior = Origin("generate", 2) /\ numRecs = 2
  /\ origin = prior /\ Len(db.rows) = 2

\* C8 (as claimed): in generate, after a failure of open, drop, create,
\* prepare, random read or insert the process has exited with status 1 on
\* that operation's message; nothing later has run.
C8_GenerateFailuresFatal ==
  cmd = "generate" =>
    \A op \in faults \cap {"open", "drop", "create", "prepare", "rand", "exec"} :
      pc = "exited" /\ exit = 1 /\ fatalMsg = op

C10_VacuumFailureNotFatal ==
  (cmd = "generate" /\ "vacuum" \in faults) =>
    /\ vacuum
    /\ pc = "exited" /\ exit = 0
    /\ vacLogged /\ fatalMsg = "none"
    /\ db.exists /\ GeneratedRows(db.rows, numRecs)

C10_Witness ==
  /\ Exited("generate") /\ "vacuum" \in faults
  /\ exit = 0 /\ vacLogged
  /\ numRecs = 2 /\ Len(db.rows) = 2

\* C11 (as claimed): in generate the period of the progress ticker is the
\* value of --interval.
C11_IntervalIsPeriod ==
  (cmd = "generate" /\ period # 0) => period = logSeconds

\* the send on done can complete in this state
SendCanComplete == ENABLED (GenDone \/ BenchDone)

\* C12 (as claimed): whenever the driving side is at its send of the
\* completion signal it can go on to the final statistics at once, whatever
\* the progress goroutine is doing.
C12_SendNeverWaits ==
  pc = "send" => SendCanComplete

\* C12 (amended): the driving side gets from its send to the final statistics
\* only in the step in which the progress goroutine, waiting in its select,
\* receives the signal and returns.
C12_SendWaitsForReceive ==
  [][(pc = "send" /\ pc' \notin {"send", "exited"})
       => (pc' = "stats" /\ rpc = "select" /\ rpc' = "returned" /\ sent' = sent + 1)]_vars

C12_Witness ==
  /\ pc = "stats" /\ sent = 1 /\ rpc = "returned"
  /\ lateProg >= 1

\* C13 (as claimed): a progress tick of generate leaves the position of the
\* driving goroutine, the counter and the table as they are and logs at most
\* one line.
C13_TickHarmless ==
  [][(\E seen \in 0..i : GenTick(seen))
       => (pc' = pc /\ i' = i /\ db' = db /\ nprog' <= nprog + 1)]_vars

\* C14 (as claimed): the completion signal is sent at most once, only after
\* the loop has ended with the counter at its final value; a run whose loop
\* ended has sent and delivered it once when the process ends, and a run that
\* ended inside the loop has not sent it.
C14_SignalExactlyOnce ==
  /\ sent <= 1
  /\ sent = 1 => (ended /\ (cmd = "generate" => i = numRecs))
  /\ (pc = "exited" /\ ended) => sent = 1
  /\ (pc = "exited" /\ ~ended) => sent = 0

\* C15 (as claimed): no progress line is logged once the driving loop has
\* made its last iteration.
C15_NoProgressAfterLoop ==
  lateProg = 0

\* C15 (amended): a progress line that is logged after the driving loop has
\* ended is logged while the send of the completion signal is still pending;
\* none is logged once the signal was received.
C15_LateProgressOnlyWhileSending ==
  [][lateProg' > lateProg => (pc = "send" /\ sent = 0 /\ sent' = 0)]_vars

C15_Witness ==
  /\ Exited("bench") /\ exit = 0
  /\ lateProg >= 1 /\ sent = 1

\* C16: in bench the counter is the number of rows compared so far whose
\* value decoded and whose digest matched; every row that did not decode was
\* logged, left the counter as it was, and the loop went on.
C16_CounterCountsVerified ==
  cmd = "bench" =>
    /\ i = Cardinality({k \in 1..cur : Processed(k) /\ ValidRow(db.rows[k])})
    /\ skipped = Cardinality({k \in 1..cur : Processed(k) /\ ~Decodable(db.rows[k])})

C16_Witness ==
  /\ Exited("bench") /\ exit = 0
  /\ Len(db.rows) = 2 /\ cur = 2
  /\ ~Decodable(db.rows[1]) /\ ValidRow(db.rows[2])
  /\ i = 1 /\ skipped = 1 /\ reported = 1

\* C17: the counter is 0 when an invocation starts; while it runs the counter
\* never decreases and changes only by 1 in a step of the driving loop (the
\* insert, the verification); no step of the progress goroutine changes it;
\* a generate run that exits 0 ends with the counter at numRecs.
C17_CounterSingleWriter ==
  [][ /\ ~Running => i' = 0
      /\ Running => i' >= i
      /\ (Running /\ i' # i)
           => (i' = i + 1 /\ pc \in {"exec", "verify"} /\ rpc' = rpc /\ nprog' = nprog)
      /\ (Running /\ (rpc' # rpc \/ nprog' # nprog)) => i' = i
      /\ (cmd' = "generate" /\ pc' = "exited" /\ exit' = 0) => i' = numRecs' ]_vars

C17_Witness ==
  /\ Exited("generate") /\ exit = 0
  /\ numRecs = 2 /\ i = 2 /\ nprog >= 1

\* C18: the final "written in" / "rows processed" line is logged only after
\* the progress goroutine has received the completion signal and returned,
\* and no progress line is logged once the final line has been logged.
C18_ProgressBeforeFinal ==
  [][ /\ reported' # -1 => (sent' = 1 /\ rpc' = "returned")
      /\ (reported # -1 /\ reported' # -1) => nprog' = nprog ]_vars

C18_Witness ==
  /\ cmd = "generate" /\ reported = 1 /\ numRecs = 1
  /\ nprog >= 1 /\ rpc = "returned"

\* C19 (as claimed): a generate run with --records N >= 1 in which no store
\* or randomness operation fails ends with the completion signal received
\* and the progress goroutine returned.
C19_GenerateEndsWithReporterReturned ==
  (Exited("generate") /\ numRecs >= 1 /\ faults = {})
  => (sent = 1 /\ rpc = "returned")
====
